---- MODULE Spec2Model ----
(***************************************************************************)
(* Model of redditscore/models/fasttext.py: the corpus serializer          *)
(* data_to_temp, the sklearn-style adapter FastTextClassifier and the      *)
(* owning FastTextModel.  A string is a sequence of one-character strings, *)
(* a document a sequence of tokens, a corpus a sequence of documents.      *)
(* The temp directory is the set of paths that exist; what a call wrote   *)
(* to its file is kept with the call.                                      *)
(***************************************************************************)
EXTENDS Naturals, Sequences, FiniteSets, TLC

VARIABLES
    files,              \* paths of the temp files that exist
    openFds,            \* descriptors this code opened and has not closed
    label,              \* FastTextClassifier.label, the label prefix
    _model,             \* FastTextClassifier._model: <<>> (None) or <<handle>>
    _num_classes,       \* FastTextClassifier._num_classes: <<>> (None) or <<n>>
    _classes,           \* FastTextModel._classes: <<>> (unset) or <<set>>
    class_embeddings,   \* FastTextModel.class_embeddings: <<>> or <<table>>
    fitted,             \* FastTextModel.fitted
    call                \* the last call: its arguments and what it gave back

vars == <<files, openFds, label, _model, _num_classes, _classes,
          class_embeddings, fitted, call>>

SP == " "
NL == "\n"

\* Python's None is the empty option <<>>, a value v the option <<v>>
NoneV == <<>>
Some(v) == <<v>>

(* ---------------- bounds and input sets ---------------- *)
MaxDocs == 2
MaxFiles == 2
MaxFds == 2

\* the label prefix ("__label__" by default, line 55), one or two characters here
Prefixes == {<<"L">>, <<"L", "L">>}
SerTokens == {<<>>, <<"a">>, <<"a", SP, "b">>, <<"a", NL, "b">>}
SerLabels == {<<"x">>, <<"y">>}
Paths == 1..MaxFiles

SeqsUpTo(S, n) == UNION {[1..k -> S] : k \in 0..n}
DocsOver(T) == {<<>>} \cup {<<t>> : t \in T} \cup {<<s, t>> : s \in T, t \in T}
\* the label arrays y parallel to a corpus of n documents
LabelArrays(L, n) == [1..n -> L]

(* ---------------- string helpers ---------------- *)
RECURSIVE Concat(_)
Concat(ss) == IF ss = <<>> THEN <<>> ELSE Head(ss) \o Concat(Tail(ss))

\* a variant of Join that puts nothing between the tokens
Join_NoSeparator(doc) == Concat(doc)

\* ' '.join(doc)
RECURSIVE Join(_)
Join(doc) ==
    IF doc = <<>> THEN <<>>
    ELSE IF Len(doc) = 1 THEN doc[1]
    ELSE doc[1] \o <<SP>> \o Join(Tail(doc))

\* s[n:]
Slice(s, n) == IF n >= Len(s) THEN <<>> ELSE SubSeq(s, n + 1, Len(s))

Range(s) == {s[i] : i \in DOMAIN s}

HasChar(s, c) == \E i \in DOMAIN s : s[i] = c
FirstAt(s, c) == CHOOSE i \in DOMAIN s : s[i] = c /\ \A j \in 1..(i - 1) : s[j] # c

\* s.split(c) for a one-character separator c
RECURSIVE SplitOn(_, _)
SplitOn(s, c) ==
    IF ~HasChar(s, c) THEN <<s>>
    ELSE <<SubSeq(s, 1, FirstAt(s, c) - 1)>> \o SplitOn(Slice(s, FirstAt(s, c)), c)

\* the lines of a text, each ended by a newline; an unended last line counts
Lines(text) ==
    LET parts == SplitOn(text, NL)
    IN IF parts[Len(parts)] = <<>> THEN SubSeq(parts, 1, Len(parts) - 1) ELSE parts

(* ---------------- data_to_temp ---------------- *)
\* variants of DocLine: one forgets the prefix, one the space after the label
DocLine_NoPrefix(X, lab, y, i) ==
    IF y # NoneV THEN y[1][i] \o <<SP>> \o Join(X[i]) ELSE Join(X[i])
DocLine_NoSpace(X, lab, y, i) ==
    IF y # NoneV THEN lab \o y[1][i] \o Join(X[i]) ELSE Join(X[i])

\* the text of document i as lines 30-33 build it
DocLine(X, lab, y, i) ==
    IF y # NoneV THEN lab \o y[1][i] \o <<SP>> \o Join(X[i]) ELSE Join(X[i])

\* what one iteration of the loop hands to tmp.write
WriteLine(X, lab, y, i) == DocLine(X, lab, y, i) \o <<NL>>

\* the iteration at which y[i] raises IndexError (0: none)
FailAt(X, y) == IF y # NoneV /\ Len(y[1]) < Len(X) THEN Len(y[1]) + 1 ELSE 0

\* the file's content when the with-block is left
Written(X, lab, y) ==
    LET n == IF FailAt(X, y) = 0 THEN Len(X) ELSE FailAt(X, y) - 1
    IN Concat([i \in 1..n |-> WriteLine(X, lab, y, i)])

\* data_to_temp(X, label, y) when mkstemp hands out path p: what it returns
\* (ok: the path; otherwise the exception) and the file it leaves at p
data_to_temp(X, lab, y, p) ==
    [ok |-> FailAt(X, y) = 0,
     path |-> p,
     content |-> Written(X, lab, y),
     error |-> IF FailAt(X, y) = 0 THEN "none" ELSE "IndexError"]

\* descriptors open after data_to_temp: mkstemp opens one (line 27), the
\* with-block closes it on return and on exception (line 28)
FdsAfterSerializer(n) == (n + 1) - 1

(* ---------------- construction ---------------- *)
Init ==
    /\ files = {}
    /\ openFds = 0
    /\ label \in Prefixes
    /\ _model = NoneV
    /\ _num_classes = NoneV
    /\ _classes = NoneV
    /\ class_embeddings = NoneV
    /\ fitted = FALSE
    /\ call = [op |-> "init"]

adapter == <<label, _model, _num_classes>>
owner == <<_classes, class_embeddings, fitted>>

(* ---------------- the serializer called on its own ---------------- *)
\* path = data_to_temp(X, lab, y), from a caller that has removed the file of
\* its previous call
SerCall(X, lab, y) ==
    /\ \E p \in Paths \ files :
          LET r == data_to_temp(X, lab, y, p)
          IN /\ files' = files \cup {p}
             /\ openFds' = FdsAfterSerializer(openFds)
             /\ call' = [op |-> "data_to_temp", X |-> X, lab |-> lab, y |-> y,
                         ok |-> r.ok, path |-> r.path, content |-> r.content,
                         error |-> r.error]
    /\ UNCHANGED <<adapter, owner>>

\* the caller's os.remove(path), as fit does at line 105
SerRemove ==
    /\ call.op = "data_to_temp" /\ call.ok
    /\ files' = files \ {call.path}
    /\ call' = [op |-> "remove", path |-> call.path]
    /\ UNCHANGED <<openFds, adapter, owner>>

SerCorpora == SeqsUpTo(DocsOver(SerTokens), MaxDocs)

SerNext ==
    \/ /\ files = {}
       /\ \E X \in SerCorpora, lab \in Prefixes :
             \E y \in {NoneV} \cup {Some(v) : v \in LabelArrays(SerLabels, Len(X))} :
                SerCall(X, lab, y)
    \/ SerRemove

SpecSer == Init /\ [][SerNext]_vars

(* ---------------- the external library ---------------- *)
WS == {SP, NL}
StartsWith(w, pre) == Len(w) >= Len(pre) /\ SubSeq(w, 1, Len(pre)) = pre
WordEnd(text) ==
    IF \E i \in DOMAIN text : text[i] \in WS
    THEN (CHOOSE i \in DOMAIN text :
              text[i] \in WS /\ \A j \in 1..(i - 1) : text[j] \notin WS) - 1
    ELSE Len(text)

\* the whitespace-delimited words of a text, as the trainer reads a corpus
RECURSIVE Words(_)
Words(text) ==
    IF text = <<>> THEN {}
    ELSE IF text[1] \in WS THEN Words(Tail(text))
    ELSE {SubSeq(text, 1, WordEnd(text))} \cup Words(Slice(text, WordEnd(text)))

\* the labels the trainer finds in a corpus: the words that begin with the prefix
CorpusLabels(text, pre) == {w \in Words(text) : StartsWith(w, pre)}

\* the handle fastText.train_supervised returns for the corpus file; X and
\* classes record what it was trained on
RECURSIVE SetToSeq(_)
SetToSeq(S) ==
    IF S = {} THEN <<>>
    ELSE LET x == CHOOSE x \in S : TRUE IN <<x>> \o SetToSeq(S \ {x})

\* the handle fastText.train_supervised returns for the corpus file: its
\* label table; X and classes record what it was trained on
train_supervised(text, pre, X, y) ==
    [labels |-> SetToSeq(CorpusLabels(text, pre)), X |-> X,
     classes |-> {y[i] : i \in DOMAIN y}]
Min(a, b) == IF a < b THEN a ELSE b
\* the score of the j-th best label
Scores == << <<"p1">>, <<"p2">>, <<"p3">> >>
ScoreOfRank(j) == Scores[j]

\* handle.predict(docs, k) for one document: the k best labels, best first,
\* with their scores; r picks which label the model ranks first
TopK(h, doc, k, r) ==
    [doc |-> doc,
     top |-> [j \in 1..Min(k, Len(h.labels)) |->
                [label |-> h.labels[((r + j - 2) % Len(h.labels)) + 1],
                 score |-> ScoreOfRank(j)]]]

(* ---------------- FastTextClassifier ---------------- *)
\* how far fit(X, y) gets when mkstemp hands out p: data_to_temp may raise,
\* and the trainer raises when it is made to (trainOk false) or finds no label
FitRun(X, y, p, trainOk) ==
    LET r == data_to_temp(X, label, Some(y), p)
        h == train_supervised(r.content, label, X, y)
    IN IF ~r.ok THEN [stage |-> "serializer", error |-> r.error, handle |-> h]
       ELSE IF ~(trainOk /\ h.labels # <<>>)
            THEN [stage |-> "trainer", error |-> "TrainError", handle |-> h]
            ELSE [stage |-> "done", error |-> "none", handle |-> h]

\* line 86: reached once data_to_temp has returned
NumClassesAfterFit(run, y) ==
    IF run.stage = "serializer" THEN _num_classes
    ELSE Some(Cardinality({y[i] : i \in DOMAIN y}))

\* lines 87-104: assigned when train_supervised returns
ModelAfterFit(run) == IF run.stage = "done" THEN Some(run.handle) ELSE _model

\* lines 85 and 105: the corpus file is created, and removed at the end
FilesAfterFit(run, p) ==
    IF run.stage = "done" THEN (files \cup {p}) \ {p} ELSE files \cup {p}

ClfFit(X, y, trainOk) ==
    /\ \E p \in Paths \ files :
          LET run == FitRun(X, y, p, trainOk)
          IN /\ _num_classes' = NumClassesAfterFit(run, y)
             /\ _model' = ModelAfterFit(run)
             /\ files' = FilesAfterFit(run, p)
             /\ openFds' = FdsAfterSerializer(openFds)
             /\ call' = [op |-> "fit", ok |-> run.stage = "done", error |-> run.error]
    /\ UNCHANGED <<label, owner>>

\* the error of self._model.predict when self._model is None
UnfittedError == "AttributeError"

JoinDocs(X) == [i \in DOMAIN X |-> Join(X[i])]

\* a variant of StripPredictions that cuts one character whatever the prefix
StripPredictions_OneChar(raw, pre) == [i \in DOMAIN raw |-> Slice(raw[i].top[1].label, 1)]

\* lines 112-113
StripPredictions(raw, pre) == [i \in DOMAIN raw |-> Slice(raw[i].top[1].label, Len(pre))]

ClfPredict(X, r) ==
    /\ IF _model = NoneV
       THEN call' = [op |-> "predict", ok |-> FALSE, error |-> UnfittedError, X |-> X]
       ELSE LET docs == JoinDocs(X)
                raw == [i \in DOMAIN docs |-> TopK(_model[1], docs[i], 1, r[i])]
            IN call' = [op |-> "predict", ok |-> TRUE, error |-> "none", X |-> X,
                        raw |-> raw, result |-> StripPredictions(raw, label)]
    /\ UNCHANGED <<files, openFds, adapter, owner>>

Floor == <<"1e-10">>
NaN == <<"NaN">>

\* line 122: the dict of one document; a later pair replaces an earlier one
\* with the same key
RowDict(pred, pre) ==
    LET key(j) == Slice(pred[j].label, Len(pre))
        keys == {key(j) : j \in DOMAIN pred}
    IN [c \in keys |->
          pred[CHOOSE j \in DOMAIN pred :
                  key(j) = c /\ \A m \in DOMAIN pred : key(m) = c => m <= j].score]

\* pd.DataFrame(list of dicts): the columns are the union of the keys
DataFrame(dicts) ==
    LET cols == UNION {DOMAIN dicts[i] : i \in DOMAIN dicts}
    IN [i \in DOMAIN dicts |->
          [c \in cols |-> IF c \in DOMAIN dicts[i] THEN dicts[i][c] ELSE NaN]]

\* a variant of FillNa that fills with zero
FillNa_Zero(table, v) ==
    [i \in DOMAIN table |->
       [c \in DOMAIN table[i] |-> IF table[i][c] = NaN THEN <<"0.0">> ELSE table[i][c]]]

FillNa(table, v) ==
    [i \in DOMAIN table |->
       [c \in DOMAIN table[i] |-> IF table[i][c] = NaN THEN v ELSE table[i][c]]]

\* lines 120-124
Probabilities(raw, pre) ==
    FillNa(DataFrame([i \in DOMAIN raw |-> RowDict(raw[i].top, pre)]), Floor)

ClfPredictProba(X, r, kOk) ==
    /\ IF _model = NoneV
       THEN call' = [op |-> "predict_proba", ok |-> FALSE, error |-> UnfittedError,
                     X |-> X]
       ELSE IF _num_classes[1] = 0 /\ ~kOk
       THEN call' = [op |-> "predict_proba", ok |-> FALSE, error |-> "PredictError",
                     X |-> X]
       ELSE LET docs == JoinDocs(X)
                raw == [i \in DOMAIN docs |->
                          TopK(_model[1], docs[i], _num_classes[1], r[i])]
            IN call' = [op |-> "predict_proba", ok |-> TRUE, error |-> "none",
                        X |-> X, raw |-> raw, result |-> Probabilities(raw, label)]
    /\ UNCHANGED <<files, openFds, adapter, owner>>

\* the corpora tried: one plain document, and one whose second token begins
\* with the prefix "L"
DocA == <<<<"a">>>>
DocB == <<<<"a">>, <<"L", "z">>>>
FitCorpora == {<<>>, <<DocA>>, <<DocA, DocB>>, <<DocB, DocA>>}
FitLabels == {<<"x">>, <<"y">>, <<"x", SP, "y">>}
\* the label arrays tried with a corpus of n documents: parallel, or one short
FitLabelArrays(n) ==
    [1..n -> FitLabels] \cup (IF n > 0 THEN [1..(n - 1) -> FitLabels] ELSE {})
Ranks(X) == [DOMAIN X -> 1..(IF _model = NoneV THEN 1 ELSE Len(_model[1].labels))]

FitStep ==
    /\ Cardinality(files) < MaxFiles
    /\ \E X \in FitCorpora : \E y \in FitLabelArrays(Len(X)) : \E trainOk \in BOOLEAN :
          ClfFit(X, y, trainOk)

PredictStep == \E X \in FitCorpora : \E r \in Ranks(X) : ClfPredict(X, r)

\* asked for k = 0 labels the predictor may refuse or answer with none
PredictProbaStep ==
    \E X \in FitCorpora : \E r \in Ranks(X) :
        \E kOk \in (IF _num_classes = Some(0) THEN BOOLEAN ELSE {TRUE}) :
            ClfPredictProba(X, r, kOk)

Next == FitStep \/ PredictStep \/ PredictProbaStep

Spec == Init /\ [][Next]_vars

(* ---------------- FastTextModel ---------------- *)
\* the text save_softmax writes for a handle: a header line, then one line
\* per label, the label followed by what tails[i] gives for its coordinates
RowTails == {<<"1", SP, "2", SP>>, <<"1", SP, SP>>, <<"1", SP, "2">>}
ExportText(h, tails) ==
    <<"2", SP, "2", NL>>
        \o Concat([i \in DOMAIN h.labels |-> h.labels[i] \o <<SP>> \o tails[i] \o <<NL>>])
ExportTexts(h) ==
    {<<"0", SP, "2", NL>>} \cup {ExportText(h, t) : t \in [DOMAIN h.labels -> RowTails]}

\* pd.read_csv(path, skiprows=[0], delimiter=' ', header=None): the rows
\* after the first, split on single spaces; the first row sets the number of
\* columns, a shorter row is padded and an empty field is NaN
DataRows(text) == Tail(Lines(text))
Fields(text, i) == SplitOn(DataRows(text)[i], SP)
ReadCsvError(text) ==
    IF Lines(text) = <<>> \/ DataRows(text) = <<>> THEN "EmptyDataError"
    ELSE IF \E i \in DOMAIN DataRows(text) : Len(Fields(text, i)) > Len(Fields(text, 1))
         THEN "ParserError"
         ELSE "none"
ReadCsv(text) ==
    [i \in DOMAIN DataRows(text) |->
       [c \in 1..Len(Fields(text, 1)) |->
          IF c <= Len(Fields(text, i)) /\ Fields(text, i)[c] # <<>>
          THEN Fields(text, i)[c] ELSE NaN]]

\* .dropna(axis=1): the columns that stay
KeptColumns(grid) ==
    {c \in DOMAIN grid[1] : \A i \in DOMAIN grid : grid[i][c] # NaN}

\* lines 184-187: the table, one row per data row: its key (the first column
\* without the prefix) and its cells under the columns that stay
Embeddings(text, pre) ==
    LET grid == ReadCsv(text)
        cols == KeptColumns(grid) \ {1}
    IN [i \in DOMAIN grid |->
          [key |-> Slice(grid[i][1], Len(pre)), cells |-> [c \in cols |-> grid[i][c]]]]

\* descriptors open after line 182: mkstemp opens one, nothing closes it
FdsAfterExport(n) == n + 1

\* FastTextModel.fit(X, y): p and p2 are the paths mkstemp hands out, saveOk
\* whether save_softmax succeeds, text what it writes
ModelFit(X, y, trainOk, saveOk) ==
    /\ _classes' = Some({y[i] : i \in DOMAIN y})
    /\ \E p \in Paths \ files :
          LET run == FitRun(X, y, p, trainOk)
          IN /\ _num_classes' = NumClassesAfterFit(run, y)
             /\ _model' = ModelAfterFit(run)
             /\ IF run.stage # "done"
                THEN /\ files' = FilesAfterFit(run, p)
                     /\ openFds' = FdsAfterSerializer(openFds)
                     /\ call' = [op |-> "model_fit", ok |-> FALSE, error |-> run.error]
                     /\ UNCHANGED <<class_embeddings, fitted>>
                ELSE \E p2 \in Paths \ FilesAfterFit(run, p) :
                     \E text \in (IF saveOk THEN ExportTexts(run.handle) ELSE {<<>>}) :
                       /\ openFds' = FdsAfterExport(FdsAfterSerializer(openFds))
                       /\ IF ~saveOk
                          THEN /\ files' = FilesAfterFit(run, p) \cup {p2}
                               /\ call' = [op |-> "model_fit", ok |-> FALSE,
                                           error |-> "SaveError"]
                               /\ UNCHANGED <<class_embeddings, fitted>>
                          ELSE IF ReadCsvError(text) # "none"
                          THEN /\ files' = FilesAfterFit(run, p) \cup {p2}
                               /\ call' = [op |-> "model_fit", ok |-> FALSE,
                                           error |-> ReadCsvError(text)]
                               /\ UNCHANGED <<class_embeddings, fitted>>
                          ELSE /\ files' = (FilesAfterFit(run, p) \cup {p2}) \ {p2}
                               /\ class_embeddings' = Some(Embeddings(text, label))
                               /\ fitted' = TRUE
                               /\ call' = [op |-> "model_fit", ok |-> TRUE,
                                           error |-> "none", export |-> text]
    /\ UNCHANGED label

ModelCorpora == {<<DocA>>, <<DocA, DocB>>}
ModelLabels == {<<"x">>, <<"y">>}
ModelLabelArrays(n) == [1..n -> ModelLabels] \cup [1..(n - 1) -> ModelLabels]

ModelFitStep ==
    /\ Cardinality(files) < MaxFiles
    /\ openFds < MaxFds
    /\ \E X \in ModelCorpora : \E y \in ModelLabelArrays(Len(X)) :
          \E trainOk \in BOOLEAN, saveOk \in BOOLEAN :
             ModelFit(X, y, trainOk, saveOk)

ModelNext == ModelFitStep

SpecModel == Init /\ [][ModelNext]_vars

(* ---------------- reading a corpus file back ---------------- *)
\* tokens with one space between neighbours
Spaced(doc) == Concat([j \in DOMAIN doc |-> IF j = 1 THEN doc[j] ELSE <<SP>> \o doc[j]])

\* the line the contract gives document i
ContractLine(X, lab, y, i) ==
    IF y = NoneV THEN Spaced(X[i]) ELSE lab \o y[1][i] \o <<SP>> \o Spaced(X[i])

SerReturned == call.op = "data_to_temp" /\ call.ok

NoNewlineIn(X, lab, y) ==
    /\ \A i \in DOMAIN X : \A j \in DOMAIN X[i] : ~HasChar(X[i][j], NL)
    /\ y # NoneV => (~HasChar(lab, NL) /\ \A i \in DOMAIN y[1] : ~HasChar(y[1][i], NL))

\* C1 as stated: every returned call leaves a file of exactly n lines, line i
\* being the contract's line for document i, at the returned path.
C1_AsStated ==
    SerReturned =>
        /\ call.path \in files
        /\ Len(Lines(call.content)) = Len(call.X)
        /\ \A i \in DOMAIN call.X :
              Lines(call.content)[i] = ContractLine(call.X, call.lab, call.y, i)

\* C1 (amended): when no token, label or prefix holds a newline, the file at
\* the returned path has exactly n lines and line i is the prefix, the label
\* and a space followed by the tokens of X[i] joined by single spaces (the
\* joined tokens alone when y is None).
C1_LinesOfFile ==
    (SerReturned /\ NoNewlineIn(call.X, call.lab, call.y)) =>
        /\ call.path \in files
        /\ Len(Lines(call.content)) = Len(call.X)
        /\ \A i \in DOMAIN call.X :
              Lines(call.content)[i] = ContractLine(call.X, call.lab, call.y, i)

C1_Witness ==
    /\ SerReturned /\ NoNewlineIn(call.X, call.lab, call.y)
    /\ call.y # NoneV /\ Len(call.X) = 2 /\ call.path \in files
    /\ Len(call.X[1]) = 2 /\ call.y[1][1] # call.y[1][2]

PlainTokens(X) ==
    \A i \in DOMAIN X : \A j \in DOMAIN X[i] :
        ~HasChar(X[i][j], SP) /\ ~HasChar(X[i][j], NL)

ReadBack(text) == [i \in DOMAIN Lines(text) |-> SplitOn(Lines(text)[i], SP)]

\* C2 as stated: without labels and with tokens free of spaces and newlines,
\* splitting the file into lines and each line on single spaces gives X back,
\* documents without tokens included.
C2_AsStated ==
    (SerReturned /\ call.y = NoneV /\ PlainTokens(call.X)) =>
        ReadBack(call.content) = call.X

\* C2 (amended): the round trip gives X back when, besides, every document
\* has at least one token (empty-string tokens allowed).
C2_RoundTrip ==
    (SerReturned /\ call.y = NoneV /\ PlainTokens(call.X)
        /\ \A i \in DOMAIN call.X : call.X[i] # <<>>) =>
        ReadBack(call.content) = call.X

C2_Witness ==
    /\ SerReturned /\ call.y = NoneV /\ PlainTokens(call.X)
    /\ Len(call.X) = 2 /\ call.X[1] = <<<<>>, <<"a">>>> /\ call.X[2] = <<<<>>>>

(* ---------------- FastTextClassifier: predict and predict_proba ---------------- *)
\* s without its first n characters
DropFirst(s, n) == [j \in 1..(IF Len(s) > n THEN Len(s) - n ELSE 0) |-> s[j + n]]

PredictReturned == call.op = "predict" /\ call.ok
ProbaReturned == call.op = "predict_proba" /\ call.ok

\* C3: on a fitted adapter predict(X) returns Len(X) labels, the i-th being
\* the predictor's best label for the space-joined X[i] without its first
\* Len(label) characters.
C3_PredictLabels ==
    /\ (call.op = "predict" /\ _model # NoneV) => call.ok
    /\ PredictReturned =>
          /\ Len(call.result) = Len(call.X)
          /\ \A i \in DOMAIN call.X :
                /\ call.raw[i].doc = Spaced(call.X[i])
                /\ call.result[i] = DropFirst(call.raw[i].top[1].label, Len(label))

C3_Witness ==
    /\ PredictReturned /\ Len(call.X) = 2 /\ Len(call.X[1]) = 2
    /\ call.result[1] # call.result[2]

\* the prefix-stripped labels the predictor returned for document i
StrippedLabels(i) ==
    {DropFirst(call.raw[i].top[j].label, Len(label)) : j \in DOMAIN call.raw[i].top}

\* C4: predict_proba(X) returns one row per document, in input order; the
\* columns of every row are the union of the stripped labels returned for
\* any document of the call; a cell holds the score returned for its label
\* on its document, and the floor 1e-10 when none was returned; no cell is
\* missing or zero.
C4_ProbaTable ==
    ProbaReturned =>
        /\ Len(call.result) = Len(call.X)
        /\ \A i \in DOMAIN call.X :
              /\ call.raw[i].doc = Spaced(call.X[i])
              /\ DOMAIN call.result[i] = UNION {StrippedLabels(m) : m \in DOMAIN call.X}
              /\ \A c \in DOMAIN call.result[i] :
                    /\ \A j \in DOMAIN call.raw[i].top :
                          DropFirst(call.raw[i].top[j].label, Len(label)) = c
                              => call.result[i][c] = call.raw[i].top[j].score
                    /\ c \notin StrippedLabels(i) => call.result[i][c] = <<"1e-10">>
                    /\ call.result[i][c] \notin {<<"NaN">>, <<"0.0">>}

C4_Witness ==
    /\ ProbaReturned /\ Len(call.X) = 2
    /\ \E c \in DOMAIN call.result[1] :
          call.result[1][c] = <<"1e-10">> /\ call.result[2][c] # <<"1e-10">>
    /\ \E c \in DOMAIN call.result[1] : call.result[1][c] \in Range(Scores)

\* a predict(X) on the X the current model was fitted on
PredictAfterFit ==
    PredictReturned /\ _model # NoneV /\ call.X = _model[1].X /\ Len(call.X) >= 1

\* C5 as stated: fit(X, y) followed by predict(X) returns Len(X) labels, each
\* one of the distinct values of y.
C5_AsStated ==
    PredictAfterFit =>
        /\ Len(call.result) = Len(call.X)
        /\ \A i \in DOMAIN call.result : call.result[i] \in _model[1].classes

\* no label holds whitespace, and no word of a document begins with the prefix
CleanCorpus(X, classes, pre) ==
    /\ \A c \in classes : \A k \in DOMAIN c : c[k] \notin WS
    /\ \A i \in DOMAIN X : \A w \in Words(Spaced(X[i])) : ~StartsWith(w, pre)

\* C5 (amended): fit(X, y) followed by predict(X) returns Len(X) labels, each
\* one of the distinct values of y, when no label of y holds whitespace and
\* no whitespace-delimited word of a document of X begins with the prefix.
C5_FitThenPredict ==
    (PredictAfterFit /\ CleanCorpus(call.X, _model[1].classes, label)) =>
        /\ Len(call.result) = Len(call.X)
        /\ \A i \in DOMAIN call.result : call.result[i] \in _model[1].classes

C5_Witness ==
    /\ PredictAfterFit /\ CleanCorpus(call.X, _model[1].classes, label)
    /\ Len(call.X) = 2 /\ Cardinality(_model[1].classes) = 2
    /\ call.result[1] # call.result[2]

(* ---------------- FastTextClassifier: lifecycle ---------------- *)
\* C6 as stated: on an unfitted adapter predict and predict_proba fail with
\* an unfitted-model error, return nothing and leave the adapter unfitted.
C6_AsStated ==
    (call.op \in {"predict", "predict_proba"} /\ _model = NoneV) =>
        ~call.ok /\ call.error = "NotFittedError"

\* C7 as stated: once a fit call has finished, normally or not, no temp file
\* of it is left.
C7_AsStated == files = {}

\* C8 as stated: between calls _model and _num_classes describe the same
\* fit: both None, or _num_classes the number of distinct labels the current
\* _model was trained on.
C8_AsStated ==
    IF _model = NoneV THEN _num_classes = NoneV
    ELSE _num_classes = Some(Cardinality(_model[1].classes))

(* ---------------- FastTextModel.fit ---------------- *)
ModelFitted == call.op = "model_fit" /\ call.ok

\* field c of data row i of the export file ("" when the row has no such field)
ExportCell(i, c) ==
    LET f == SplitOn(Lines(call.export)[i + 1], SP)
    IN IF c <= Len(f) THEN f[c] ELSE <<>>

\* C9 as stated: the table has one row per data row of the export file,
\* keyed by the first column without the prefix, and keeps exactly the
\* columns that are not entirely empty.
C9_AsStated ==
    ModelFitted =>
        LET emb == class_embeddings[1]
            nrows == Len(Lines(call.export)) - 1
            ncols == Len(SplitOn(Lines(call.export)[2], SP))
        IN /\ Len(emb) = nrows
           /\ \A i \in 1..nrows :
                 /\ emb[i].key = DropFirst(ExportCell(i, 1), Len(label))
                 /\ DOMAIN emb[i].cells =
                       {c \in 2..ncols : \E r \in 1..nrows : ExportCell(r, c) # <<>>}

\* C10 as stated: between calls no descriptor opened by mkstemp is still open.
C10_AsStated == openFds = 0

====
